---------------------------- MODULE Spec2Model ----------------------------
(* Model of PicgoHelper (src/unnamed/part_001): the uploader configuration  *)
(* store of siyuan-plugin-picgo.  The configuration document is one value;  *)
(* every public method of the helper is one action.  JavaScript `undefined` *)
(* is 0 for ids and timestamps and NoStr for strings.                       *)
EXTENDS Integers, Sequences, FiniteSets, TLC

\* ------------------------------------------------------------------ bounds
MaxIds == 2      \* uuids IdUtil.newUuid() hands out in one run
MaxTime == 2     \* last instant of the Date.now() clock
MaxBeds == 2     \* longest uploader registry and longest picBed.list
MaxPending == 2  \* plugin operations in flight at one time
MaxFormIds == 3  \* uuids handed out in a run of the configuration form

\* --------------------------------------------------------------- constants
Types == {"github", "smms"}          \* backend types of the uploader registry
NoStr == "<undefined>"               \* an absent string
TokenVals == {" b"}                  \* credential values a form can carry
GenVals == {"1", "2"}                \* values of the free paths a.b / a.c

\* ---------------------------------------------------------------- profiles
\* An IUploaderConfigListItem; def = FALSE is "no object at all".
NoProfile ==
  [def |-> FALSE, _id |-> 0, _configName |-> NoStr, _createdAt |-> 0,
   _updatedAt |-> 0, token |-> NoStr]

EmptyObj == [NoProfile EXCEPT !.def = TRUE]

\* String.prototype.trim over the value domain of the model.
Trim(s) == IF s = " b" THEN "b" ELSE s

\* utils.trimValues: a copy of the object with every string value trimmed.
trimValues(o) == [o EXCEPT !._configName = Trim(@), !.token = Trim(@)]

\* utils.getRawData: strips the reactive wrappers, the value is unchanged.
getRawData(x) == x

\* Object.assign(target, src): every own key of src overwrites target's.
Assign(target, src) ==
  [def |-> TRUE,
   _id |-> IF src._id # 0 THEN src._id ELSE target._id,
   _configName |-> IF src._configName # NoStr THEN src._configName
                   ELSE target._configName,
   _createdAt |-> IF src._createdAt # 0 THEN src._createdAt
                  ELSE target._createdAt,
   _updatedAt |-> IF src._updatedAt # 0 THEN src._updatedAt
                  ELSE target._updatedAt,
   token |-> IF src.token # NoStr THEN src.token ELSE target.token]

\* IdUtil.newUuid: the n-th call returns the n-th fresh identifier.
newUuid(n) == n

\* completeUploaderMetaConfig: defaults, then the trimmed data, then the
\* store-assigned metadata (which always wins).
completeUploaderMetaConfig(originData, uuid, t) ==
  Assign(Assign([EmptyObj EXCEPT !._configName = "Default"],
                trimValues(originData)),
         [EmptyObj EXCEPT !._id = uuid, !._createdAt = t, !._updatedAt = t])

\* ------------------------------------------------------------ the document
\* uploader.<type>: def = FALSE is "no such key"; hasList = FALSE is an
\* object without configList.
NoUploader == [def |-> FALSE, hasList |-> FALSE, configList |-> <<>>,
               defaultId |-> 0]

\* Values a path can be set to (one record shape for all of them).
StrV(s) == [t |-> "str", s |-> s, n |-> 0, p |-> NoProfile, l |-> <<>>]
IdV(n) == [t |-> "id", s |-> NoStr, n |-> n, p |-> NoProfile, l |-> <<>>]
ProfV(p) == [t |-> "prof", s |-> NoStr, n |-> 0, p |-> p, l |-> <<>>]
ListV(l) == [t |-> "list", s |-> NoStr, n |-> 0, p |-> NoProfile, l |-> l]
UtcV(l, n) == [t |-> "utc", s |-> NoStr, n |-> n, p |-> NoProfile, l |-> l]

\* The document a fresh installation starts from.
EmptyDoc ==
  [def |-> TRUE,
   picBed |-> [current |-> NoStr, uploader |-> NoStr, transformer |-> NoStr,
               list |-> <<>>,
               beds |-> [T \in Types |-> NoProfile]],
   uploader |-> [T \in Types |-> NoUploader],
   picgoPlugins |-> [n \in {"picgo-plugin-a", "picgo-plugin-b"} |-> NoStr],
   a |-> [b |-> NoStr, c |-> NoStr]]

\* No configuration object at all (an undefined or null reactiveCfg).
NoDoc == [EmptyDoc EXCEPT !.def = FALSE]

\* lodash _.set(doc, path, value) for the paths the helper writes.
SetPath(doc, path, v) ==
  IF path = <<"picBed", "current">>
    THEN [doc EXCEPT !.picBed.current = v.s]
  ELSE IF path = <<"picBed", "uploader">>
    THEN [doc EXCEPT !.picBed.uploader = v.s]
  ELSE IF path = <<"picBed", "transformer">>
    THEN [doc EXCEPT !.picBed.transformer = v.s]
  ELSE IF path = <<"picBed", "list">> THEN [doc EXCEPT !.picBed.list = v.l]
  ELSE IF Len(path) = 2 /\ path[1] = "picgoPlugins"
    THEN [doc EXCEPT !.picgoPlugins[path[2]] = v.s]
  ELSE IF path = <<"a", "b">> THEN [doc EXCEPT !.a.b = v.s]
  ELSE IF path = <<"a", "c">> THEN [doc EXCEPT !.a.c = v.s]
  ELSE IF Len(path) = 2 /\ path[1] = "picBed"
    THEN [doc EXCEPT !.picBed.beds[path[2]] = v.p]
  ELSE IF Len(path) = 2 /\ path[1] = "uploader"
    THEN [doc EXCEPT !.uploader[path[2]] =
            [def |-> TRUE, hasList |-> TRUE, configList |-> v.l,
             defaultId |-> v.n]]
  ELSE IF Len(path) = 3 /\ path[1] = "uploader" /\ path[3] = "configList"
    THEN [doc EXCEPT !.uploader[path[2]] =
            [@ EXCEPT !.def = TRUE, !.hasList = TRUE, !.configList = v.l]]
  ELSE IF Len(path) = 3 /\ path[1] = "uploader" /\ path[3] = "defaultId"
    THEN [doc EXCEPT !.uploader[path[2]] =
            [@ EXCEPT !.def = TRUE, !.defaultId = v.n]]
  ELSE doc

\* lodash _.get(doc, path) as a value of the same shape.
GetPath(doc, path) ==
  IF path = <<"picBed", "current">> THEN StrV(doc.picBed.current)
  ELSE IF path = <<"picBed", "uploader">> THEN StrV(doc.picBed.uploader)
  ELSE IF path = <<"picBed", "transformer">>
    THEN StrV(doc.picBed.transformer)
  ELSE IF path = <<"picBed", "list">> THEN ListV(doc.picBed.list)
  ELSE IF Len(path) = 2 /\ path[1] = "picgoPlugins"
    THEN StrV(doc.picgoPlugins[path[2]])
  ELSE IF path = <<"a", "b">> THEN StrV(doc.a.b)
  ELSE IF path = <<"a", "c">> THEN StrV(doc.a.c)
  ELSE IF Len(path) = 2 /\ path[1] = "picBed"
    THEN ProfV(doc.picBed.beds[path[2]])
  ELSE IF Len(path) = 2 /\ path[1] = "uploader"
    THEN UtcV(doc.uploader[path[2]].configList,
              doc.uploader[path[2]].defaultId)
  ELSE IF Len(path) = 3 /\ path[1] = "uploader" /\ path[3] = "configList"
    THEN ListV(doc.uploader[path[2]].configList)
  ELSE IF Len(path) = 3 /\ path[1] = "uploader" /\ path[3] = "defaultId"
    THEN IdV(doc.uploader[path[2]].defaultId)
  ELSE StrV(NoStr)

\* One entry of a patch object: a dotted path and its value.
KV(path, v) == [name |-> path, value |-> v]

\* savePicgoConfig with the event emitted before the path is set.
RECURSIVE savePicgoConfig_M(_, _)
savePicgoConfig_M(st, patch) ==
  IF patch = <<>> THEN st
  ELSE LET e == Head(patch)
           set == [kind |-> "set", name |-> e.name, value |-> e.value]
           emit == [kind |-> "emit", name |-> e.name, value |-> e.value]
       IN savePicgoConfig_M(
            [st EXCEPT !.cfg = SetPath(st.cfg, e.name, e.value),
                       !.log = st.log \o <<emit, set>>],
            Tail(patch))

\* A store state threaded through one handler: the document, the steps the
\* handler has taken so far, and the number of uuids handed out.
\* savePicgoConfig: for every key of the patch, in key order, set the path
\* and then emit CONFIG_CHANGE {configName, value}.
RECURSIVE savePicgoConfig(_, _)
savePicgoConfig(st, patch) ==
  IF patch = <<>> THEN st
  ELSE LET e == Head(patch)
           set == [kind |-> "set", name |-> e.name, value |-> e.value]
           emit == [kind |-> "emit", name |-> e.name, value |-> e.value]
       IN savePicgoConfig(
            [st EXCEPT !.cfg = SetPath(st.cfg, e.name, e.value),
                       !.log = st.log \o <<set, emit>>],
            Tail(patch))


\* getPicgoConfig(key): a read through the read-only view of the document.
getPicgoConfig(st, path) == GetPath(st.cfg, path)

\* getCurrentUploader: picBed.uploader || picBed.current || "smms".
getCurrentUploader(st) ==
  IF st.cfg.picBed.uploader # NoStr THEN st.cfg.picBed.uploader
  ELSE IF st.cfg.picBed.current # NoStr THEN st.cfg.picBed.current
  ELSE "smms"

\* upgradeUploaderConfig: the legacy object picBed.<type> becomes a
\* one-entry configList.  The object is read through getPicgoConfig: a
\* stored object comes back as a read-only view (constructor, line 78), so
\* Object.assign on it writes nothing; only the `{}` default of an absent
\* key is a plain object that takes the metadata.  newUuid() is called in
\* both cases.
upgradeUploaderConfig(st, type, t) ==
  LET stored == st.cfg.picBed.beds[type]
      uploaderConfig == IF stored.def THEN stored ELSE EmptyObj
      noId == uploaderConfig._id = 0
      meta == completeUploaderMetaConfig(uploaderConfig, newUuid(st.ids + 1), t)
      completed == IF noId /\ ~stored.def THEN Assign(uploaderConfig, meta)
                   ELSE uploaderConfig
      st1 == IF noId THEN [st EXCEPT !.ids = @ + 1] ELSE st
      st2 == savePicgoConfig(st1,
               << KV(<<"uploader", type>>, UtcV(<<completed>>, completed._id)),
                  KV(<<"picBed", type>>, ProfV(completed)) >>)
  IN [st |-> st2, configList |-> <<completed>>, defaultId |-> completed._id]

\* getUploaderConfigList: the stored list and default id, after migrating a
\* type that has no configList yet.
getUploaderConfigList(st, type, t) ==
  LET currentUploaderConfig == st.cfg.uploader[type]
  IN IF currentUploaderConfig.def /\ currentUploaderConfig.hasList
       THEN [st |-> st, configList |-> currentUploaderConfig.configList,
             defaultId |-> currentUploaderConfig.defaultId]
       ELSE upgradeUploaderConfig(st, type, t)

\* Array.prototype.find(item => item._id === id): 0 when nothing matches.
FindIndex(list, id) ==
  IF \E i \in 1..Len(list) : list[i]._id = id
    THEN CHOOSE i \in 1..Len(list) :
           /\ list[i]._id = id
           /\ \A j \in 1..(i - 1) : list[j]._id # id
    ELSE 0

\* Array.prototype.filter(item => item._id !== id).
RECURSIVE FilterOut(_, _)
FilterOut(list, id) ==
  IF list = <<>> THEN <<>>
  ELSE IF Head(list)._id # id THEN <<Head(list)>> \o FilterOut(Tail(list), id)
  ELSE FilterOut(Tail(list), id)

\* What a handler hands back: nothing, a profile, {configList, defaultId},
\* a list of picture beds, or a thrown error.
RetNone == [kind |-> "none", p |-> NoProfile, configList |-> <<>>,
            defaultId |-> 0, beds |-> <<>>]
RetProfile(p) == IF p.def THEN [RetNone EXCEPT !.kind = "profile", !.p = p]
                 ELSE RetNone
RetList(l, d) == [RetNone EXCEPT !.kind = "list", !.configList = l,
                                 !.defaultId = d]
RetThrow == [RetNone EXCEPT !.kind = "throw"]
RetBeds(l) == [RetNone EXCEPT !.kind = "beds", !.beds = l]

\* selectUploaderConfig that saves without looking whether the id was found.
selectUploaderConfig_M(st, type, id, t) ==
  LET g == getUploaderConfigList(st, type, t)
      i == FindIndex(g.configList, id)
      config == IF i = 0 THEN NoProfile ELSE g.configList[i]
  IN [st |-> savePicgoConfig(g.st,
               << KV(<<"uploader", type, "defaultId">>, IdV(id)),
                  KV(<<"picBed", type>>, ProfV(config)) >>),
      ret |-> RetProfile(config)]

\* selectUploaderConfig that stores the default id but not picBed.<type>.
selectUploaderConfig_M2(st, type, id, t) ==
  LET g == getUploaderConfigList(st, type, t)
      i == FindIndex(g.configList, id)
      config == IF i = 0 THEN NoProfile ELSE g.configList[i]
  IN IF i # 0
       THEN [st |-> savePicgoConfig(g.st,
                      << KV(<<"uploader", type, "defaultId">>, IdV(id)) >>),
             ret |-> RetProfile(config)]
       ELSE [st |-> g.st, ret |-> RetNone]

\* selectUploaderConfig: make the profile with this id the default of its
\* type and the active picBed.<type>; nothing is saved when it is not found.
selectUploaderConfig(st, type, id, t) ==
  LET g == getUploaderConfigList(st, type, t)
      i == FindIndex(g.configList, id)
      config == IF i = 0 THEN NoProfile ELSE g.configList[i]
  IN IF i # 0
       THEN [st |-> savePicgoConfig(g.st,
                      << KV(<<"uploader", type, "defaultId">>, IdV(id)),
                         KV(<<"picBed", type>>, ProfV(config)) >>),
             ret |-> RetProfile(config)]
       ELSE [st |-> g.st, ret |-> RetNone]

\* setDefaultPicBed: one patch with picBed.current and picBed.uploader.
setDefaultPicBed(st, type) ==
  savePicgoConfig(st, << KV(<<"picBed", "current">>, StrV(type)),
                         KV(<<"picBed", "uploader">>, StrV(type)) >>)

\* updateUploaderConfig that forgets to make a new profile the default.
updateUploaderConfig_M(st, type, id, config0, t) ==
  LET config == getRawData(config0)
      uploaderConfig == getUploaderConfigList(st, type, t)
      configList == getRawData(uploaderConfig.configList)
      defaultId == 0
      i == FindIndex(configList, id)
      st1 == uploaderConfig.st
      uuid == newUuid(st1.ids + 1)
      updatedConfig ==
        IF i # 0
          THEN Assign(Assign(configList[i], trimValues(config)),
                      [EmptyObj EXCEPT !._updatedAt = t])
          ELSE completeUploaderMetaConfig(config, uuid, t)
      newList == IF i # 0 THEN [configList EXCEPT ![i] = updatedConfig]
                 ELSE Append(configList, updatedConfig)
      st2 == IF i # 0 THEN st1 ELSE [st1 EXCEPT !.ids = @ + 1]
  IN savePicgoConfig(st2,
       << KV(<<"uploader", type, "configList">>, ListV(newList)),
          KV(<<"uploader", type, "defaultId">>, IdV(defaultId)),
          KV(<<"picBed", type>>, ProfV(updatedConfig)) >>)

\* updateUploaderConfig that leaves picBed.<type> as it was.
updateUploaderConfig_M2(st, type, id, config0, t) ==
  LET config == getRawData(config0)
      uploaderConfig == getUploaderConfigList(st, type, t)
      configList == getRawData(uploaderConfig.configList)
      defaultId == 0
      i == FindIndex(configList, id)
      st1 == uploaderConfig.st
      uuid == newUuid(st1.ids + 1)
      updatedConfig ==
        IF i # 0
          THEN Assign(Assign(configList[i], trimValues(config)),
                      [EmptyObj EXCEPT !._updatedAt = t])
          ELSE completeUploaderMetaConfig(config, uuid, t)
      updatedDefaultId == IF i # 0 THEN defaultId ELSE updatedConfig._id
      newList == IF i # 0 THEN [configList EXCEPT ![i] = updatedConfig]
                 ELSE Append(configList, updatedConfig)
      st2 == IF i # 0 THEN st1 ELSE [st1 EXCEPT !.ids = @ + 1]
  IN savePicgoConfig(st2,
       << KV(<<"uploader", type, "configList">>, ListV(newList)),
          KV(<<"uploader", type, "defaultId">>, IdV(updatedDefaultId)) >>)

\* updateUploaderConfig: merge into the profile with this id, or append a
\* new profile.  The default id is read from `ddefaultId`, a key the result
\* of getUploaderConfigList does not have, so it is undefined.
updateUploaderConfig(st, type, id, config0, t) ==
  LET config == getRawData(config0)
      uploaderConfig == getUploaderConfigList(st, type, t)
      configList == getRawData(uploaderConfig.configList)
      defaultId == 0
      i == FindIndex(configList, id)
      st1 == uploaderConfig.st
      uuid == newUuid(st1.ids + 1)
      updatedConfig ==
        IF i # 0
          THEN Assign(Assign(configList[i], trimValues(config)),
                      [EmptyObj EXCEPT !._updatedAt = t])
          ELSE completeUploaderMetaConfig(config, uuid, t)
      updatedDefaultId == IF i # 0 THEN defaultId ELSE updatedConfig._id
      newList == IF i # 0 THEN [configList EXCEPT ![i] = updatedConfig]
                 ELSE Append(configList, updatedConfig)
      st2 == IF i # 0 THEN st1 ELSE [st1 EXCEPT !.ids = @ + 1]
  IN savePicgoConfig(st2,
       << KV(<<"uploader", type, "configList">>, ListV(newList)),
          KV(<<"uploader", type, "defaultId">>, IdV(updatedDefaultId)),
          KV(<<"picBed", type>>, ProfV(updatedConfig)) >>)

\* changeCurrentUploader: up to three separate saves.
changeCurrentUploader(st, type, config, id) ==
  LET st1 == IF id # 0
               THEN savePicgoConfig(st,
                      << KV(<<"uploader", type, "defaultId">>, IdV(id)) >>)
               ELSE st
      st2 == IF config.def
               THEN savePicgoConfig(st1,
                      << KV(<<"picBed", type>>, ProfV(config)) >>)
               ELSE st1
  IN savePicgoConfig(st2, << KV(<<"picBed", "current">>, StrV(type)),
                             KV(<<"picBed", "uploader">>, StrV(type)) >>)

\* deleteUploaderConfig whose guard lets a one-entry list through.
deleteUploaderConfig_M(st, type, id, t) ==
  LET uploaderConfig == getUploaderConfigList(st, type, t)
      configList == getRawData(uploaderConfig.configList)
      defaultId == 0
      st1 == uploaderConfig.st
      updatedConfigList == FilterOut(configList, id)
      elect == id = defaultId
      first == IF updatedConfigList = <<>> THEN NoProfile
               ELSE updatedConfigList[1]
      newDefaultId == IF elect THEN first._id ELSE defaultId
      st2 == IF elect THEN changeCurrentUploader(st1, type, first, first._id)
             ELSE st1
  IN IF Len(configList) < 1 THEN [st |-> st1, ret |-> RetNone]
     ELSE IF elect /\ updatedConfigList = <<>>
       THEN [st |-> st1, ret |-> RetThrow]
     ELSE [st |-> savePicgoConfig(st2,
                    << KV(<<"uploader", type, "configList">>,
                          ListV(updatedConfigList)) >>),
           ret |-> RetList(updatedConfigList, newDefaultId)]

\* deleteUploaderConfig: refuses on a list of at most one entry; otherwise
\* filters the id out.  The default id is read from `ddefaultId` (undefined),
\* so the branch that re-elects a default runs only for an undefined id; it
\* throws when nothing is left to elect.
deleteUploaderConfig(st, type, id, t) ==
  LET uploaderConfig == getUploaderConfigList(st, type, t)
      configList == getRawData(uploaderConfig.configList)
      defaultId == 0
      st1 == uploaderConfig.st
      updatedConfigList == FilterOut(configList, id)
      elect == id = defaultId
      first == IF updatedConfigList = <<>> THEN NoProfile
               ELSE updatedConfigList[1]
      newDefaultId == IF elect THEN first._id ELSE defaultId
      st2 == IF elect THEN changeCurrentUploader(st1, type, first, first._id)
             ELSE st1
  IN IF Len(configList) <= 1 THEN [st |-> st1, ret |-> RetNone]
     ELSE IF elect /\ updatedConfigList = <<>>
       THEN [st |-> st1, ret |-> RetThrow]
     ELSE [st |-> savePicgoConfig(st2,
                    << KV(<<"uploader", type, "configList">>,
                          ListV(updatedConfigList)) >>),
           ret |-> RetList(updatedConfigList, newDefaultId)]

\* handleRestoreState that resets picBed.current and leaves picBed.uploader.
handleRestoreState_M(st, item, name) ==
  LET st1 == IF item = "uploader" /\ st.cfg.picBed.current = name
               THEN savePicgoConfig(st,
                      << KV(<<"picBed", "current">>, StrV("github")) >>)
               ELSE st
  IN IF item = "transformer" /\ st1.cfg.picBed.transformer = name
       THEN savePicgoConfig(st1,
              << KV(<<"picBed", "transformer">>, StrV("path")) >>)
       ELSE st1

\* handleRestoreState: fall back to "github" / "path" when the disabled
\* plugin provided the current uploader / transformer.
handleRestoreState(st, item, name) ==
  LET st1 == IF item = "uploader" /\ st.cfg.picBed.current = name
               THEN savePicgoConfig(st,
                      << KV(<<"picBed", "current">>, StrV("github")),
                         KV(<<"picBed", "uploader">>, StrV("github")) >>)
               ELSE st
  IN IF item = "transformer" /\ st1.cfg.picBed.transformer = name
       THEN savePicgoConfig(st1,
              << KV(<<"picBed", "transformer">>, StrV("path")) >>)
       ELSE st1

\* -------------------------------------------------------------- constructor
\* A constructor that checks the context only.
constructor_M(c, reactiveCfg) ==
  IF ~c.def THEN [state |-> "threw", error |-> "PicGo ctx cannot be null"]
  ELSE [state |-> "ready", error |-> NoStr]

\* new PicgoHelper(ctx, reactiveCfg): throws on an absent context, then on
\* an absent configuration object; otherwise the helper is ready.
constructor(c, reactiveCfg) ==
  IF ~c.def THEN [state |-> "threw", error |-> "PicGo ctx cannot be null"]
  ELSE IF ~reactiveCfg.def
    THEN [state |-> "threw",
          error |-> "PicGo reactive config cannot be null"]
  ELSE [state |-> "ready", error |-> NoStr]

\* -------------------------------------------------------------- picture beds
\* Types a persisted picBed.list can name: the registered ones and one
\* whose plugin is gone.
BedTypes == Types \cup {"imgur"}

\* The visible key of a list entry: true, false, or no such key.
VisVals == {"true", "false", NoStr}

\* ctx.helper.uploader.get(item).name: only SM.MS carries a display name.
UploaderName(item) == IF item = "smms" THEN "SM.MS" ELSE NoStr

\* Array.prototype.find(i => i.type === item) over picBed.list: the index of
\* the first match, 0 when there is none.
FindType(list, item) ==
  IF \E i \in 1..Len(list) : list[i].type = item
    THEN CHOOSE i \in 1..Len(list) :
           /\ list[i].type = item
           /\ \A j \in 1..(i - 1) : list[j].type # item
    ELSE 0

\* Array.prototype.sort with the comparator (a) => a.type === "github" ? -1
\* : 0.  The comparator is not consistent (it never looks at its second
\* argument), so the order of the result is implementation-defined: every
\* permutation of the array is a possible outcome.
SortOutcomes(l) ==
  { [i \in 1..Len(l) |-> l[f[i]]] : f \in Permutations(1..Len(l)) }

\* getPicBeds: one entry per registered type, visible unless picBed.list
\* says otherwise, then sorted.  The value is the set of possible results.
getPicBeds(st, c) ==
  LET picBedTypes == c.idList
      picBedFromDB == getPicgoConfig(st, <<"picBed", "list">>).l
      picBeds ==
        [k \in 1..Len(picBedTypes) |->
           LET item == picBedTypes[k]
               i == FindType(picBedFromDB, item)
           IN [type |-> item,
               name |-> IF UploaderName(item) # NoStr THEN UploaderName(item)
                        ELSE item,
               visible |-> IF i # 0 THEN picBedFromDB[i].visible ELSE "true"]]
  IN SortOutcomes(picBeds)

\* Array.prototype.filter(item => item) after mapping the hidden entries to
\* null.
RECURSIVE FilterVisible(_)
FilterVisible(l) ==
  IF l = <<>> THEN <<>>
  ELSE IF Head(l).visible = "true" THEN <<Head(l)>> \o FilterVisible(Tail(l))
  ELSE FilterVisible(Tail(l))

\* getVisiablePicBeds without the SM.MS fallback.
getVisiablePicBeds_M(picBeds) == FilterVisible(picBeds)

\* getVisiablePicBeds: the visible entries of getPicBeds(); SM.MS alone when
\* there is none.
getVisiablePicBeds(picBeds) ==
  LET visiablePicBeds == FilterVisible(picBeds)
  IN IF Len(visiablePicBeds) = 0
       THEN <<[type |-> "smms", name |-> "SM.MS", visible |-> NoStr]>>
       ELSE visiablePicBeds

\* -------------------------------------------------------------- plugin menu
\* PicgoHelperEvents.
REFRESH_PLUGIN_LIST == "refreshPluginList"
HANDLE_PLUGIN_ING == "handlePluginIng"
HANDLE_PLUGIN_UNINSTALLED == "handlePluginUninstalled"
HANDLE_PLUGIN_UPDATED == "handlePluginUpdated"

\* An Error object and Error.prototype.toString.
NoError == [name |-> NoStr, message |-> NoStr]
Error(message) == [name |-> "Error", message |-> message]
ErrorToString(e) ==
  IF e.message = "" THEN e.name ELSE e.name \o ": " \o e.message

\* How ctx.pluginHandler.uninstall / update ends: it resolves with an
\* IPluginHandlerResult {success, body} or rejects with an Error.
NoOutcome == [kind |-> "none", success |-> FALSE, body |-> NoStr,
              error |-> NoError]
Resolve(success, body) ==
  [NoOutcome EXCEPT !.kind = "resolve", !.success = success, !.body = body]
Reject(e) == [NoOutcome EXCEPT !.kind = "reject", !.error = e]
Outcomes ==
  { Resolve(TRUE, "ok"), Resolve(FALSE, "npm ERR!"), Resolve(FALSE, ""),
    Reject(Error("spawn npm ENOENT")), Reject(Error("")) }

\* The payload {success, body, errMsg} of a completion event.
ResV(success, body, errMsg) ==
  [t |-> "res", success |-> success, body |-> body, errMsg |-> errMsg]

\* triggerPicgoEvent: picgoEventBus.emit(eventName, args).
triggerPicgoEvent(st, eventName, args) ==
  [st EXCEPT !.log = Append(@, [kind |-> "event", name |-> <<eventName>>,
                                value |-> args])]

\* The promise of an async method once it has settled.
Fulfilled(v) == [state |-> "fulfilled", value |-> v, reason |-> NoError]
Rejected(e) == [state |-> "rejected", value |-> ResV(FALSE, NoStr, NoStr),
                reason |-> e]

\* uninstallPlugin: awaits ctx.pluginHandler.uninstall([fullName]); the
\* body of its result is the plugin name, the handler's body moves to
\* errMsg.  A rejection of the awaited promise rejects this one.
uninstallPlugin(fullName, outcome) ==
  IF outcome.kind = "reject" THEN Rejected(outcome.error)
  ELSE Fulfilled(ResV(outcome.success, fullName,
                      IF outcome.success THEN "" ELSE outcome.body))

\* updatelugin: the same around ctx.pluginHandler.update.
updatelugin(fullName, outcome) ==
  IF outcome.kind = "reject" THEN Rejected(outcome.error)
  ELSE Fulfilled(ResV(outcome.success, fullName,
                      IF outcome.success THEN "" ELSE outcome.body))

\* uninstallItem.click up to the call of uninstallPlugin: the "in progress"
\* event.
uninstallItemClick(st, fullName) ==
  triggerPicgoEvent(st, HANDLE_PLUGIN_ING, StrV(fullName))

\* The handlers of uninstallItem.click without the .catch: a rejection is
\* nobody's.
uninstallItemSettled_M(st, promise) ==
  IF promise.state = "fulfilled"
    THEN LET res == promise.value
         IN [st |-> triggerPicgoEvent(st, HANDLE_PLUGIN_UNINSTALLED,
                      ResV(res.success, res.body,
                           IF res.success THEN "" ELSE res.body)),
             ret |-> RetNone]
    ELSE [st |-> st, ret |-> RetThrow]

\* The .then / .catch handlers of uninstallItem.click: one
\* HANDLE_PLUGIN_UNINSTALLED either way.
uninstallItemSettled(st, promise) ==
  IF promise.state = "fulfilled"
    THEN LET res == promise.value
         IN [st |-> triggerPicgoEvent(st, HANDLE_PLUGIN_UNINSTALLED,
                      ResV(res.success, res.body,
                           IF res.success THEN "" ELSE res.body)),
             ret |-> RetNone]
    ELSE LET errMsg == ErrorToString(promise.reason)
         IN [st |-> triggerPicgoEvent(st, HANDLE_PLUGIN_UNINSTALLED,
                      ResV(FALSE, errMsg, errMsg)),
             ret |-> RetNone]

\* updateItem.click up to the call of updatelugin.
updateItemClick(st, fullName) ==
  triggerPicgoEvent(st, HANDLE_PLUGIN_ING, StrV(fullName))

\* The .then / .catch handlers of updateItem.click: one
\* HANDLE_PLUGIN_UPDATED either way.
updateItemSettled(st, promise) ==
  IF promise.state = "fulfilled"
    THEN LET res == promise.value
         IN [st |-> triggerPicgoEvent(st, HANDLE_PLUGIN_UPDATED,
                      ResV(res.success, res.body,
                           IF res.success THEN "" ELSE res.body)),
             ret |-> RetNone]
    ELSE LET errMsg == ErrorToString(promise.reason)
         IN [st |-> triggerPicgoEvent(st, HANDLE_PLUGIN_UPDATED,
                      ResV(FALSE, errMsg, errMsg)),
             ret |-> RetNone]

\* What a plugin provides (plugin.config.uploader.name and
\* plugin.config.transformer.name): plugin a an uploader, plugin b a
\* transformer.
PluginConfig(fullName) ==
  IF fullName = "picgo-plugin-a"
    THEN [uploader |-> [name |-> "imgur"], transformer |-> [name |-> NoStr]]
    ELSE [uploader |-> [name |-> NoStr], transformer |-> [name |-> "b64"]]

\* enableItem.click: the flag of the plugin, then the refresh event.  The
\* booleans of picgoPlugins are the strings "true" and "false".
enableItemClick(st, fullName) ==
  triggerPicgoEvent(
    savePicgoConfig(st, << KV(<<"picgoPlugins", fullName>>, StrV("true")) >>),
    REFRESH_PLUGIN_LIST, StrV(NoStr))

\* disableItem.click: the flag of the plugin, the transformer and the
\* uploader back to their defaults when the plugin provided them, then the
\* refresh event.
disableItemClick(st, fullName) ==
  LET config == PluginConfig(fullName)
      st1 == savePicgoConfig(st, << KV(<<"picgoPlugins", fullName>>,
                                       StrV("false")) >>)
      st2 == IF config.transformer.name # NoStr
               THEN handleRestoreState(st1, "transformer",
                                       config.transformer.name)
               ELSE st1
      st3 == IF config.uploader.name # NoStr
               THEN handleRestoreState(st2, "uploader", config.uploader.name)
               ELSE st2
  IN triggerPicgoEvent(st3, REFRESH_PLUGIN_LIST, StrV(NoStr))

\* -------------------------------------------------------- configuration form
\* ConfigForm.vue with configType "uploader".  props.id is the backend type,
\* props.configId the _id of the edited profile, configRuleForm the object
\* the inputs are bound to.
NoForm == [mounted |-> FALSE, isNewForm |-> FALSE, id |-> NoStr,
           configId |-> 0, configRuleForm |-> EmptyObj]

\* emit(name, value): an event of the component to its parent.
emit(st, name, value) ==
  [st EXCEPT !.log = Append(@, [kind |-> "emit-up", name |-> <<name>>,
                                value |-> value])]

\* getCurConfigFormData: the profile of the type with _id configId, or {}.
getCurConfigFormData(st, id, configId, t) ==
  LET g == getUploaderConfigList(st, id, t)
      i == FindIndex(g.configList, configId)
  IN [st |-> g.st,
      curConfig |-> IF i # 0 THEN g.configList[i] ELSE EmptyObj]

\* handleConfigChange: a new form starts from {}; an edit form copies the
\* stored profile into configRuleForm (a schema item without a stored value
\* gets its default, which is no value).
handleConfigChange(st, f, t) ==
  LET cur == getCurConfigFormData(st, f.id, f.configId, t)
      config == IF f.isNewForm THEN EmptyObj ELSE cur.curConfig
  IN [st |-> IF f.isNewForm THEN st ELSE cur.st,
      configRuleForm |-> Assign(f.configRuleForm, config)]

\* doSubmit: updateUploaderConfig(props.id, val._id, val).
doSubmit(st, id, val, t) == updateUploaderConfig(st, id, val._id, val, t)

\* The callback of watch(configRuleForm): submit, then tell the parent.
onConfigRuleForm(st, f, t) ==
  LET st1 == doSubmit(st, f.id, f.configRuleForm, t)
  IN IF f.isNewForm THEN emit(st1, "on-close", StrV(NoStr))
     ELSE emit(emit(st1, "drawer-title-change",
                    StrV(f.configRuleForm._configName)),
               "on-close", StrV(NoStr))

\* <script setup>: both watchers are immediate, so mounting runs
\* handleConfigChange and then submits configRuleForm once.
setup(st, id, isNewForm, configId, t) ==
  LET f0 == [NoForm EXCEPT !.mounted = TRUE, !.isNewForm = isNewForm,
                           !.id = id, !.configId = configId]
      h == handleConfigChange(st, f0, t)
      f1 == [f0 EXCEPT !.configRuleForm = h.configRuleForm]
  IN [st |-> onConfigRuleForm(h.st, f1, t), form |-> f1]

\* ------------------------------------------------------------------- state
VARIABLES
  cfg,      \* the reactive configuration document
  log,      \* the set / emit steps of the most recent handler, in order
  ret,      \* what the most recent handler returned
  lastOp,   \* the most recent handler and its arguments
  ids,      \* number of uuids handed out so far
  now,      \* Date.now()
  ctx,      \* the IPicGo context handed to the constructor
  helper,   \* "none" before `new PicgoHelper`, then "ready" or "threw"
  pending,  \* plugin operations whose promise has not settled yet
  form      \* the ConfigForm on screen, if any

vars == <<cfg, log, ret, lastOp, ids, now, ctx, helper, pending, form>>

\* The ids a caller can pass: undefined (0), an id the store has handed
\* out, or a string that is no profile's id.  A caller cannot guess a uuid
\* that has not been generated yet.
StaleId == MaxIds + 1
Ids == 0..(MaxIds + 1)
Known(id) == id = 0 \/ id <= ids \/ id = StaleId

\* A legacy single-object setting, as older versions persisted it.
Legacy == [EmptyObj EXCEPT !.token = "a"]

\* What a form submits: the editable key or nothing, and possibly an _id
\* (ConfigForm submits the whole profile it edits, _id included).
FormIds == {0, 1}
Forms ==
  { [EmptyObj EXCEPT !._id = i, !.token = k] :
      i \in FormIds, k \in {NoStr} \cup TokenVals }

\* <<picBed.current, picBed.uploader>> as a persisted document can hold
\* them: none yet, or only one of the two keys (IConfig makes current
\* optional; older documents carry current alone).
ActivePairs == { <<NoStr, NoStr>>, <<NoStr, "smms">>, <<"smms", NoStr>> }

\* The patches of the free-form save: the keys a.b and a.c in either order.
GenPaths == { <<"a", "b">>, <<"a", "c">> }
Patches ==
  { <<KV(p, StrV(v))>> : p \in GenPaths, v \in GenVals }
  \cup { <<KV(pq[1], StrV(v)), KV(pq[2], StrV(w))>> :
           pq \in { x \in GenPaths \X GenPaths : x[1] # x[2] },
           v \in GenVals, w \in GenVals }

NoOp == [op |-> "init", type |-> NoStr, id |-> 0, config |-> NoProfile,
         patch |-> <<>>, name |-> NoStr, outcome |-> NoOutcome]

\* The context object: absent, or present with the ids of its uploader
\* registry (ctx.helper.uploader.getIdList()) in registration order.
NoCtx == [def |-> FALSE, idList |-> <<>>]
Ctx(idList) == [def |-> TRUE, idList |-> idList]

\* The plugin operations of the menu and the plugins they are run on.
PluginOps == {"uninstall", "update"}
PluginNames == {"picgo-plugin-a", "picgo-plugin-b"}
NoPending == [k \in PluginOps \X PluginNames |-> 0]

\* The documents a run can start from: every backend type either never
\* configured or holding a legacy object, and one of the active pairs.
InitDoc(legacy, pr) ==
  [EmptyDoc EXCEPT
     !.picBed.beds = [T \in Types |->
                        IF T \in legacy THEN Legacy ELSE NoProfile],
     !.picBed.current = pr[1],
     !.picBed.uploader = pr[2]]

InitRest ==
  /\ log = <<>>
  /\ ret = RetNone
  /\ lastOp = NoOp
  /\ ids = 0
  /\ now = 1
  /\ ctx = Ctx(<<"smms", "github">>)
  /\ helper = "ready"
  /\ pending = NoPending
  /\ form = NoForm

Init ==
  /\ \E legacy \in SUBSET Types : cfg = InitDoc(legacy, <<"github", "github">>)
  /\ InitRest

InitActive ==
  /\ \E legacy \in SUBSET Types, pr \in ActivePairs : cfg = InitDoc(legacy, pr)
  /\ InitRest

Store == [cfg |-> cfg, log |-> <<>>, ids |-> ids]

\* The run stays inside the bounds.
InBounds(st) == st.ids <= MaxIds

\* A method runs on a constructed helper only; it returns r and leaves the
\* store as st.
Commit(st, r, op) ==
  /\ helper = "ready"
  /\ cfg' = st.cfg
  /\ log' = st.log
  /\ ids' = st.ids
  /\ ret' = r
  /\ lastOp' = op
  /\ UNCHANGED <<now, ctx, helper, pending, form>>

GetUploaderConfigList(type) ==
  LET g == getUploaderConfigList(Store, type, now)
  IN /\ InBounds(g.st)
     /\ Commit(g.st, RetList(g.configList, g.defaultId),
               [NoOp EXCEPT !.op = "getUploaderConfigList", !.type = type])

SelectUploaderConfig(type, id) ==
  LET r == selectUploaderConfig(Store, type, id, now)
  IN /\ Known(id)
     /\ InBounds(r.st)
     /\ Commit(r.st, r.ret,
               [NoOp EXCEPT !.op = "selectUploaderConfig", !.type = type,
                            !.id = id])

SetDefaultPicBed(type) ==
  /\ type \in Types
  /\ Commit(setDefaultPicBed(Store, type), RetNone,
            [NoOp EXCEPT !.op = "setDefaultPicBed", !.type = type])

UpdateUploaderConfig(type, id, config) ==
  LET st == updateUploaderConfig(Store, type, id, config, now)
  IN /\ Known(id)
     /\ Known(config._id)
     /\ InBounds(st)
     /\ Commit(st, RetNone,
               [NoOp EXCEPT !.op = "updateUploaderConfig", !.type = type,
                            !.id = id, !.config = config])

DeleteUploaderConfig(type, id) ==
  LET r == deleteUploaderConfig(Store, type, id, now)
  IN /\ Known(id)
     /\ InBounds(r.st)
     /\ Commit(r.st, r.ret,
               [NoOp EXCEPT !.op = "deleteUploaderConfig", !.type = type,
                            !.id = id])

HandleRestoreState(item, name) ==
  /\ item \in {"uploader", "transformer"}
  /\ Commit(handleRestoreState(Store, item, name), RetNone,
            [NoOp EXCEPT !.op = "handleRestoreState", !.type = item,
                         !.name = name])

\* savePicgoConfig called directly (ConfigForm.doSubmit for plugin and
\* transformer settings); an undefined cfg only warns.
SavePicgoConfig(patch) ==
  /\ patch \in Patches \cup {<<>>}
  /\ Commit(savePicgoConfig(Store, patch), RetNone,
            [NoOp EXCEPT !.op = "savePicgoConfig", !.patch = patch])

\* Time passes between two handlers.
Tick ==
  /\ now < MaxTime
  /\ now' = now + 1
  /\ lastOp' = [NoOp EXCEPT !.op = "tick"]
  /\ log' = <<>>
  /\ ret' = RetNone
  /\ UNCHANGED <<cfg, ids, ctx, helper, pending, form>>

\* new PicgoHelper(ctx, cfg) with the context and configuration object the
\* caller holds; a constructor that threw leaves no object to call.
Construct ==
  LET h == constructor(ctx, cfg)
  IN /\ helper = "none"
     /\ helper' = h.state
     /\ ret' = IF h.state = "threw" THEN RetThrow ELSE RetNone
     /\ lastOp' = [NoOp EXCEPT !.op = "constructor", !.name = h.error]
     /\ log' = <<>>
     /\ UNCHANGED <<cfg, ids, now, ctx, pending, form>>

\* A menu handler or promise callback: like Commit, with the promises in
\* flight changed to p.
CommitPlugin(st, r, op, p) ==
  /\ helper = "ready"
  /\ cfg' = st.cfg
  /\ log' = st.log
  /\ ids' = st.ids
  /\ ret' = r
  /\ lastOp' = op
  /\ pending' = p
  /\ UNCHANGED <<now, ctx, helper, form>>

\* The click on "uninstall": the event, then the promise is in flight.
UninstallItemClick(fullName) ==
  LET key == <<"uninstall", fullName>>
  IN /\ pending[key] < MaxPending
     /\ CommitPlugin(uninstallItemClick(Store, fullName), RetNone,
                     [NoOp EXCEPT !.op = "uninstallItem.click",
                                  !.name = fullName],
                     [pending EXCEPT ![key] = @ + 1])

\* The promise of an uninstall settles and its handler runs.
UninstallItemSettled(fullName, outcome) ==
  LET key == <<"uninstall", fullName>>
      r == uninstallItemSettled(Store, uninstallPlugin(fullName, outcome))
  IN /\ pending[key] > 0
     /\ CommitPlugin(r.st, r.ret,
                     [NoOp EXCEPT !.op = "uninstallItem.settled",
                                  !.name = fullName, !.outcome = outcome],
                     [pending EXCEPT ![key] = @ - 1])

\* The click on "update".
UpdateItemClick(fullName) ==
  LET key == <<"update", fullName>>
  IN /\ pending[key] < MaxPending
     /\ CommitPlugin(updateItemClick(Store, fullName), RetNone,
                     [NoOp EXCEPT !.op = "updateItem.click",
                                  !.name = fullName],
                     [pending EXCEPT ![key] = @ + 1])

\* The promise of an update settles and its handler runs.
UpdateItemSettled(fullName, outcome) ==
  LET key == <<"update", fullName>>
      r == updateItemSettled(Store, updatelugin(fullName, outcome))
  IN /\ pending[key] > 0
     /\ CommitPlugin(r.st, r.ret,
                     [NoOp EXCEPT !.op = "updateItem.settled",
                                  !.name = fullName, !.outcome = outcome],
                     [pending EXCEPT ![key] = @ - 1])

\* A step of the form: the component builds its own PicgoHelper from the
\* context and configuration object it was given.
CommitForm(st, op, f) ==
  /\ constructor(ctx, cfg).state = "ready"
  /\ st.ids <= MaxFormIds
  /\ cfg' = st.cfg
  /\ log' = st.log
  /\ ids' = st.ids
  /\ ret' = RetNone
  /\ lastOp' = op
  /\ form' = f
  /\ UNCHANGED <<now, ctx, helper, pending>>

\* The form is opened for a type: as a new form, or on the profile configId.
FormMount(id, isNewForm, configId) ==
  /\ ~form.mounted
  /\ configId = 0 \/ configId <= ids
  /\ isNewForm => configId = 0
  /\ \E r \in {setup(Store, id, isNewForm, configId, now)} :
       CommitForm(r.st,
                  [NoOp EXCEPT !.op = "ConfigForm.setup", !.type = id,
                               !.id = configId,
                               !.config = r.form.configRuleForm],
                  r.form)

\* The user changes an input: configRuleForm changes and its watcher runs.
FormEdit(key, v) ==
  LET val == IF key = "token" THEN [form.configRuleForm EXCEPT !.token = v]
             ELSE [form.configRuleForm EXCEPT !._configName = v]
      f == [form EXCEPT !.configRuleForm = val]
  IN /\ form.mounted
     /\ val # form.configRuleForm
     /\ \E st \in {onConfigRuleForm(Store, f, now)} :
          CommitForm(st,
                     [NoOp EXCEPT !.op = "ConfigForm.edit", !.type = form.id,
                                  !.id = form.configId, !.config = val],
                     f)

\* The parent closes the drawer.
FormUnmount ==
  /\ form.mounted
  /\ CommitForm([Store EXCEPT !.log = <<>>],
                [NoOp EXCEPT !.op = "ConfigForm.unmount", !.type = form.id],
                NoForm)

\* The click on "enable" (the entry is enabled while the plugin is not).
EnableItemClick(fullName) ==
  /\ cfg.picgoPlugins[fullName] # "true"
  /\ Commit(enableItemClick(Store, fullName), RetNone,
            [NoOp EXCEPT !.op = "enableItem.click", !.name = fullName])

\* The click on "disable" (the entry is enabled while the plugin is).
DisableItemClick(fullName) ==
  /\ cfg.picgoPlugins[fullName] = "true"
  /\ Commit(disableItemClick(Store, fullName), RetNone,
            [NoOp EXCEPT !.op = "disableItem.click", !.name = fullName])

GetPicBeds ==
  \E picBeds \in getPicBeds(Store, ctx) :
    /\ ctx.def
    /\ Commit(Store, RetBeds(picBeds), [NoOp EXCEPT !.op = "getPicBeds"])

GetVisiablePicBeds ==
  \E picBeds \in getPicBeds(Store, ctx) :
    /\ ctx.def
    /\ Commit(Store, RetBeds(getVisiablePicBeds(picBeds)),
              [NoOp EXCEPT !.op = "getVisiablePicBeds"])

\* The profile operations of the store.
Next ==
  \/ \E type \in Types : GetUploaderConfigList(type)
  \/ \E type \in Types, id \in Ids : SelectUploaderConfig(type, id)
  \/ \E type \in Types, id \in Ids, config \in Forms :
       UpdateUploaderConfig(type, id, config)
  \/ \E type \in Types, id \in Ids : DeleteUploaderConfig(type, id)
  \/ Tick

Spec == Init /\ [][Next]_vars

\* The operations that write the active backend (picBed.current and
\* picBed.uploader) and the one that builds the lists delete works on,
\* from every active pair.
NextActive ==
  \/ \E type \in Types, id \in Ids, config \in Forms :
       UpdateUploaderConfig(type, id, config)
  \/ \E type \in Types, id \in Ids : DeleteUploaderConfig(type, id)
  \/ \E type \in Types : SetDefaultPicBed(type)
  \/ \E item \in {"uploader", "transformer"}, name \in Types \cup {"path"} :
       HandleRestoreState(item, name)

SpecActive == InitActive /\ [][NextActive]_vars

\* savePicgoConfig with free-form patches, next to two handlers that call it.
NextSave ==
  \/ \E patch \in Patches \cup {<<>>} : SavePicgoConfig(patch)
  \/ \E type \in Types : SetDefaultPicBed(type)
  \/ \E type \in Types : GetUploaderConfigList(type)

SpecSave == Init /\ [][NextSave]_vars

\* The uploader registries a context can carry: the registered types in any
\* order, no type twice.
Registries ==
  { r \in UNION { [1..n -> Types] : n \in 0..MaxBeds } :
      \A i \in 1..Len(r), j \in 1..Len(r) : i # j => r[i] # r[j] }

\* The persisted picBed.list values: entries {type, visible} in any order,
\* possibly naming a type twice or a type that is not registered.
BedLists ==
  UNION { [1..n -> [type : BedTypes, visible : VisVals]] : n \in 0..MaxBeds }

InitBeds ==
  /\ \E r \in Registries, l \in BedLists :
       /\ ctx = Ctx(r)
       /\ cfg = [EmptyDoc EXCEPT !.picBed.list = l]
  /\ log = <<>>
  /\ ret = RetNone
  /\ lastOp = NoOp
  /\ ids = 0
  /\ now = 1
  /\ helper = "ready"
  /\ pending = NoPending
  /\ form = NoForm

\* Before construction: the context and the configuration object may each
\* be absent.
InitCtor ==
  /\ ctx \in {NoCtx, Ctx(<<"smms", "github">>)}
  /\ \/ cfg = NoDoc
     \/ \E legacy \in SUBSET Types :
          cfg = InitDoc(legacy, <<"github", "github">>)
  /\ log = <<>>
  /\ ret = RetNone
  /\ lastOp = NoOp
  /\ ids = 0
  /\ now = 1
  /\ helper = "none"
  /\ pending = NoPending
  /\ form = NoForm

\* Construction, then reads and writes of the store.
NextCtor ==
  \/ Construct
  \/ \E patch \in Patches \cup {<<>>} : SavePicgoConfig(patch)
  \/ \E type \in Types : SetDefaultPicBed(type)
  \/ \E type \in Types : GetUploaderConfigList(type)
  \/ GetVisiablePicBeds

SpecCtor == InitCtor /\ [][NextCtor]_vars

\* The uninstall and update entries of the plugin menu, with any number of
\* operations up to MaxPending in flight and settling in any order.
NextPlugin ==
  \/ \E fullName \in PluginNames : UninstallItemClick(fullName)
  \/ \E fullName \in PluginNames, outcome \in Outcomes :
       UninstallItemSettled(fullName, outcome)
  \/ \E fullName \in PluginNames : UpdateItemClick(fullName)
  \/ \E fullName \in PluginNames, outcome \in Outcomes :
       UpdateItemSettled(fullName, outcome)

SpecPlugin == Init /\ [][NextPlugin]_vars

\* What the user types into the form.
EditVals == {"a"}
NameVals == {"x"}

\* Sessions of the configuration form, one at a time, on documents whose
\* types are unconfigured, legacy or already listed.
NextForm ==
  \/ \E id \in Types, isNewForm \in BOOLEAN, configId \in 0..MaxFormIds :
       FormMount(id, isNewForm, configId)
  \/ \E v \in EditVals : FormEdit("token", v)
  \/ \E v \in NameVals : FormEdit("_configName", v)
  \/ FormUnmount

SpecForm == Init /\ [][NextForm]_vars

\* <<picBed.current, picBed.uploader>> of the documents the menu is used
\* on: a plugin's uploader or a built-in one active, under both keys or
\* under one of them.
MenuPairs ==
  { <<"imgur", "imgur">>, <<NoStr, "imgur">>, <<"imgur", NoStr>>,
    <<"github", "github">> }

InitMenu ==
  /\ \E pr \in MenuPairs, tr \in {"path", "b64"},
        on \in [PluginNames -> {"true", "false"}] :
       cfg = [EmptyDoc EXCEPT !.picBed.current = pr[1],
                              !.picBed.uploader = pr[2],
                              !.picBed.transformer = tr,
                              !.picgoPlugins = on]
  /\ InitRest

\* The enable and disable entries of the plugin menu, and the choice of a
\* built-in picture bed in between.
NextMenu ==
  \/ \E fullName \in PluginNames : EnableItemClick(fullName)
  \/ \E fullName \in PluginNames : DisableItemClick(fullName)
  \/ \E type \in Types : SetDefaultPicBed(type)

SpecMenu == InitMenu /\ [][NextMenu]_vars

\* The two listings of the picture beds, over every registry and list.
NextBeds ==
  \/ GetPicBeds
  \/ GetVisiablePicBeds

SpecBeds == InitBeds /\ [][NextBeds]_vars

\* ------------------------------------------------------------------ claims
HasList(T) == cfg.uploader[T].def /\ cfg.uploader[T].hasList
ListOf(T) == cfg.uploader[T].configList
DefaultOf(T) == cfg.uploader[T].defaultId
IdsOf(list) == { list[i]._id : i \in 1..Len(list) }

\* The step just taken is this handler, called on this type.
Did(op, T) == lastOp'.op = op /\ lastOp'.type = T

\* C1: whenever a type's configList is non-empty, its defaultId is the _id
\* of exactly one entry of the list.
C1_DefaultIdNamesOneEntry ==
  \A T \in Types :
    ListOf(T) # <<>> =>
      Cardinality({ i \in 1..Len(ListOf(T)) :
                      ListOf(T)[i]._id = DefaultOf(T) }) = 1

\* C2: no two entries of one configList have the same _id.
C2_IdsUnique ==
  \A T \in Types :
    \A i \in 1..Len(ListOf(T)), j \in 1..Len(ListOf(T)) :
      i # j => ListOf(T)[i]._id # ListOf(T)[j]._id

\* C3 as stated: an updateUploaderConfig whose id matches no profile of the
\* type makes the stored configList one longer, the new profile last, and
\* the stored defaultId that profile's _id.
C3_NewIdAppendsOne ==
  [][\A T \in Types :
       (Did("updateUploaderConfig", T) /\ lastOp'.id \notin IdsOf(ListOf(T)))
       => /\ Len(ListOf(T)') = Len(ListOf(T)) + 1
          /\ SubSeq(ListOf(T)', 1, Len(ListOf(T))) = ListOf(T)
          /\ DefaultOf(T)' = ListOf(T)'[Len(ListOf(T)')]._id
          /\ DefaultOf(T)' # 0]_vars

\* C3 amended: the same, for a type whose configList is already stored.
C3_NewIdAppendsOneToStoredList ==
  [][\A T \in Types :
       (/\ Did("updateUploaderConfig", T)
        /\ HasList(T)
        /\ lastOp'.id \notin IdsOf(ListOf(T)))
       => /\ Len(ListOf(T)') = Len(ListOf(T)) + 1
          /\ SubSeq(ListOf(T)', 1, Len(ListOf(T))) = ListOf(T)
          /\ DefaultOf(T)' = ListOf(T)'[Len(ListOf(T)')]._id
          /\ DefaultOf(T)' # 0]_vars

\* C3 witness: a new profile was appended to a stored list without any
\* migration in the same call (the log holds the three saves only).
C3_Witness ==
  /\ lastOp.op = "updateUploaderConfig"
  /\ Len(log) = 6
  /\ Len(ListOf(lastOp.type)) = 2
  /\ lastOp.id = StaleId
  /\ DefaultOf(lastOp.type) = ListOf(lastOp.type)[2]._id

\* C4: deleteUploaderConfig on a list of two or more that holds the id
\* removes exactly that entry, keeps the others in order, and, when the
\* removed entry was the default, stores the first remaining entry's _id as
\* defaultId.
C4_DeleteRemovesAndReelects ==
  [][\A T \in Types :
       (/\ Did("deleteUploaderConfig", T)
        /\ Len(ListOf(T)) >= 2
        /\ lastOp'.id \in IdsOf(ListOf(T)))
       => /\ ListOf(T)' = FilterOut(ListOf(T), lastOp'.id)
          /\ Len(ListOf(T)') = Len(ListOf(T)) - 1
          /\ (DefaultOf(T) = lastOp'.id
                => DefaultOf(T)' = ListOf(T)'[1]._id)]_vars

\* C5 as stated: deleteUploaderConfig on a type with at most one profile
\* (a type without a stored list included) returns nothing, changes nothing
\* in the document and emits nothing.
C5_DeleteLastIsNoOp ==
  [][\A T \in Types :
       (Did("deleteUploaderConfig", T) /\ Len(ListOf(T)) <= 1)
       => (ret' = RetNone /\ cfg' = cfg /\ log' = <<>>)]_vars

\* C5 amended: the same, for a type whose configList is already stored.
C5_DeleteLastOfStoredListIsNoOp ==
  [][\A T \in Types :
       (Did("deleteUploaderConfig", T) /\ HasList(T) /\ Len(ListOf(T)) <= 1)
       => (ret' = RetNone /\ cfg' = cfg /\ log' = <<>>)]_vars

\* C5 witness: the only profile of a stored list was the target of a delete
\* that did nothing.
C5_Witness ==
  /\ lastOp.op = "deleteUploaderConfig"
  /\ HasList(lastOp.type)
  /\ Len(ListOf(lastOp.type)) = 1
  /\ lastOp.id = ListOf(lastOp.type)[1]._id
  /\ lastOp.id # 0
  /\ log = <<>>
  /\ ret = RetNone

\* C6: when deleteUploaderConfig removes the type's default profile, the
\* first remaining entry is written as picBed.<type>.
C6_DeleteDefaultPromotesFirst ==
  [][\A T \in Types :
       (/\ Did("deleteUploaderConfig", T)
        /\ Len(ListOf(T)) >= 2
        /\ lastOp'.id \in IdsOf(ListOf(T))
        /\ DefaultOf(T) = lastOp'.id)
       => (/\ ListOf(T)' # <<>>
           /\ cfg'.picBed.beds[T] = ListOf(T)'[1])]_vars

\* C7 as stated: selectUploaderConfig with an id that no profile of the type
\* has returns nothing and keeps defaultId and picBed.<type>, also for a
\* type that has no stored list yet.
C7_SelectMissingKeepsState ==
  [][\A T \in Types :
       (Did("selectUploaderConfig", T) /\ lastOp'.id \notin IdsOf(ListOf(T)))
       => /\ ret' = RetNone
          /\ DefaultOf(T)' = DefaultOf(T)
          /\ cfg'.picBed.beds[T] = cfg.picBed.beds[T]]_vars

\* C7 amended: the same, for a type whose configList is already stored.
C7_SelectMissingInStoredListKeepsState ==
  [][\A T \in Types :
       (/\ Did("selectUploaderConfig", T)
        /\ HasList(T)
        /\ lastOp'.id \notin IdsOf(ListOf(T)))
       => /\ ret' = RetNone
          /\ DefaultOf(T)' = DefaultOf(T)
          /\ cfg'.picBed.beds[T] = cfg.picBed.beds[T]]_vars

\* C7 witness: a select of an id that is in no entry of a stored, non-empty
\* list returned nothing and saved nothing.
C7_Witness ==
  /\ lastOp.op = "selectUploaderConfig"
  /\ HasList(lastOp.type)
  /\ ListOf(lastOp.type) # <<>>
  /\ lastOp.id \notin IdsOf(ListOf(lastOp.type))
  /\ DefaultOf(lastOp.type) # 0
  /\ log = <<>>
  /\ ret = RetNone

\* C8: selectUploaderConfig with an id that a profile of the stored list has
\* stores that id as defaultId and that profile as picBed.<type>, returns
\* the profile and leaves configList as it was.
C8_SelectExistingSetsDefault ==
  [][\A T \in Types :
       (Did("selectUploaderConfig", T) /\ lastOp'.id \in IdsOf(ListOf(T)))
       => /\ DefaultOf(T)' = lastOp'.id
          /\ \E i \in 1..Len(ListOf(T)) :
               /\ ListOf(T)[i]._id = lastOp'.id
               /\ cfg'.picBed.beds[T] = ListOf(T)[i]
               /\ ret' = [RetNone EXCEPT !.kind = "profile",
                                         !.p = ListOf(T)[i]]
          /\ ListOf(T)' = ListOf(T)]_vars

\* C8 witness: the first of two profiles was selected after the second had
\* been the active one.
C8_Witness ==
  /\ lastOp.op = "selectUploaderConfig"
  /\ lastOp.id # 0
  /\ Len(ListOf(lastOp.type)) = 2
  /\ ListOf(lastOp.type)[1]._id = lastOp.id
  /\ ListOf(lastOp.type)[2]._id # lastOp.id
  /\ DefaultOf(lastOp.type) = lastOp.id
  /\ cfg.picBed.beds[lastOp.type] = ListOf(lastOp.type)[1]
  /\ ret.kind = "profile"
  /\ Len(log) = 4

\* C9: savePicgoConfig(patch) takes the keys of the patch in order; for
\* each key it sets the path and then emits one CONFIG_CHANGE with that key
\* and value, before the next key is touched; afterwards every path of the
\* patch holds its value.
C9_SaveSetsThenEmitsInKeyOrder ==
  /\ Len(log) % 2 = 0
  /\ \A i \in 1..(Len(log) \div 2) :
       /\ log[2 * i - 1].kind = "set"
       /\ log[2 * i] = [log[2 * i - 1] EXCEPT !.kind = "emit"]
  /\ lastOp.op = "savePicgoConfig" =>
       /\ Len(log) = 2 * Len(lastOp.patch)
       /\ \A i \in 1..Len(lastOp.patch) :
            /\ log[2 * i].name = lastOp.patch[i].name
            /\ log[2 * i].value = lastOp.patch[i].value
            /\ GetPath(cfg, lastOp.patch[i].name) = lastOp.patch[i].value

\* C9 witness: the patch {a.b: 1, a.c: 2} was saved and both paths are set.
C9_Witness ==
  /\ lastOp.op = "savePicgoConfig"
  /\ lastOp.patch = << KV(<<"a", "b">>, StrV("1")), KV(<<"a", "c">>, StrV("2")) >>
  /\ cfg.a = [b |-> "1", c |-> "2"]
  /\ Len(log) = 4
  /\ log[2].kind = "emit" /\ log[2].name = <<"a", "b">>
  /\ log[4].kind = "emit" /\ log[4].name = <<"a", "c">>

\* C10: a handler that starts with picBed.current equal to picBed.uploader
\* returns with the two equal.
C10_CurrentAndUploaderStayEqual ==
  [][cfg.picBed.current = cfg.picBed.uploader
       => cfg'.picBed.current = cfg'.picBed.uploader]_vars

\* C10 witness: a delete re-elected a default, went through
\* changeCurrentUploader and left both keys naming the type.
C10_Witness ==
  /\ lastOp.op = "deleteUploaderConfig"
  /\ \E i \in 1..Len(log) :
       log[i].kind = "set" /\ log[i].name = <<"picBed", "current">>
  /\ cfg.picBed.current = lastOp.type
  /\ cfg.picBed.uploader = lastOp.type

\* The visible flag getPicBeds gives a registered type: the visible key of
\* the first picBed.list entry of that type, true when there is no entry.
VisibleFlag(T) ==
  LET hits == { i \in 1..Len(cfg.picBed.list) : cfg.picBed.list[i].type = T }
  IN IF hits = {} THEN "true"
     ELSE cfg.picBed.list[CHOOSE i \in hits : \A j \in hits : i <= j].visible

Registered == { ctx.idList[i] : i \in 1..Len(ctx.idList) }

\* C11: getVisiablePicBeds() never returns an empty sequence; when no
\* registered type is visible (the empty registry included) it returns the
\* single SM.MS fallback entry; otherwise it returns the registered types
\* whose visible flag is true, each once, and nothing else.
C11_VisibleBedsNonEmptyWithFallback ==
  lastOp.op = "getVisiablePicBeds" =>
    LET shown == { T \in Registered : VisibleFlag(T) = "true" }
    IN /\ ret.kind = "beds"
       /\ ret.beds # <<>>
       /\ shown = {} =>
            /\ Len(ret.beds) = 1
            /\ ret.beds[1].type = "smms"
            /\ ret.beds[1].name = "SM.MS"
       /\ shown # {} =>
            /\ Len(ret.beds) = Cardinality(shown)
            /\ { ret.beds[i].type : i \in 1..Len(ret.beds) } = shown
            /\ \A i \in 1..Len(ret.beds) : ret.beds[i].visible = "true"

\* C11 witness: two types are registered, picBed.list hides both, and the
\* listing is the fallback entry alone.
C11_Witness ==
  /\ lastOp.op = "getVisiablePicBeds"
  /\ Len(ctx.idList) = 2
  /\ \A T \in Registered : VisibleFlag(T) # "true"
  /\ ret.beds = <<[type |-> "smms", name |-> "SM.MS", visible |-> NoStr]>>

\* C12: getUploaderConfigList on a type that has a legacy object under
\* picBed.<type> and no configList returns exactly one profile, with every
\* legacy field and a fresh, non-empty _id no other profile has; defaultId
\* is that _id; and the same list and default id are stored under
\* uploader.<type> when the call returns.
C12_LegacyMigrationAssignsFreshId ==
  [][\A T \in Types :
       (/\ Did("getUploaderConfigList", T)
        /\ ~HasList(T)
        /\ cfg.picBed.beds[T].def)
       => /\ ret'.kind = "list"
          /\ Len(ret'.configList) = 1
          /\ ret'.configList[1].token = cfg.picBed.beds[T].token
          /\ ret'.configList[1]._id # 0
          /\ \A U \in Types : ret'.configList[1]._id \notin IdsOf(ListOf(U))
          /\ ret'.defaultId = ret'.configList[1]._id
          /\ HasList(T)'
          /\ ListOf(T)' = ret'.configList
          /\ DefaultOf(T)' = ret'.defaultId]_vars

\* C13: handleRestoreState("uploader", name) resets the active backend to
\* "github" when getCurrentUploader() reports name;
\* handleRestoreState("transformer", name) resets picBed.transformer to
\* "path" when it is name; when the active value is not name the document
\* stays as it is and nothing is emitted.
C13_RestoreResetsActiveBackend ==
  [][lastOp'.op = "handleRestoreState" =>
       LET item == lastOp'.type
           name == lastOp'.name
           active == getCurrentUploader([cfg |-> cfg])
       IN /\ (item = "uploader" /\ active = name)
               => getCurrentUploader([cfg |-> cfg']) = "github"
          /\ (item = "transformer" /\ cfg.picBed.transformer = name)
               => cfg'.picBed.transformer = "path"
          /\ (\/ item = "uploader" /\ active # name
              \/ item = "transformer" /\ cfg.picBed.transformer # name)
               => (cfg' = cfg /\ log' = <<>>)]_vars

\* C14: `new PicgoHelper` with an absent ctx or an absent configuration
\* object throws at once and changes nothing; a helper is ready only when
\* both were present; and no method ever runs on a helper that is not ready
\* (the only step from an unconstructed helper is the constructor, and
\* there is no step after a constructor that threw).
C14_ConstructorRejectsMissingCtxOrCfg ==
  [][/\ (lastOp'.op = "constructor" /\ (~ctx.def \/ ~cfg.def))
          => (helper' = "threw" /\ ret' = RetThrow /\ cfg' = cfg
              /\ log' = <<>>)
     /\ helper' = "ready" => (ctx'.def /\ cfg'.def)
     /\ helper = "none" => lastOp'.op = "constructor"
     /\ helper # "threw"]_vars

\* C14 witness: the context was there, the configuration object was not,
\* and the constructor threw on its second check.
C14_Witness ==
  /\ lastOp.op = "constructor"
  /\ lastOp.name = "PicGo reactive config cannot be null"
  /\ ctx.def
  /\ ~cfg.def
  /\ helper = "threw"
  /\ ret = RetThrow

\* The external operation failed: it resolved with success = false or it
\* rejected.
Failed(outcome) ==
  \/ outcome.kind = "resolve" /\ ~outcome.success
  \/ outcome.kind = "reject"

\* The completion event of a menu entry.
CompletionOf(kind) ==
  IF kind = "uninstall" THEN HANDLE_PLUGIN_UNINSTALLED
  ELSE HANDLE_PLUGIN_UPDATED

\* C15: a click on uninstall or update emits HANDLE_PLUGIN_ING with the
\* plugin name and puts one operation in flight (nothing else does); when
\* an operation in flight fails, by success = false or by rejection, its
\* handler emits exactly one completion event of its kind, with success =
\* false and a non-empty errMsg, takes the operation out of flight and
\* throws nothing.
C15_FailedPluginOpIsPublished ==
  [][\A kind \in PluginOps, fullName \in PluginNames :
       LET key == <<kind, fullName>>
       IN /\ (lastOp'.op = kind \o "Item.click" /\ lastOp'.name = fullName)
               => /\ log' = << [kind |-> "event",
                                name |-> <<HANDLE_PLUGIN_ING>>,
                                value |-> StrV(fullName)] >>
                  /\ pending'[key] = pending[key] + 1
          /\ pending'[key] > pending[key]
               => (lastOp'.op = kind \o "Item.click"
                   /\ lastOp'.name = fullName)
          /\ (/\ lastOp'.op = kind \o "Item.settled"
              /\ lastOp'.name = fullName
              /\ Failed(lastOp'.outcome))
               => /\ pending[key] > 0
                  /\ pending'[key] = pending[key] - 1
                  /\ Len(log') = 1
                  /\ log'[1].kind = "event"
                  /\ log'[1].name = <<CompletionOf(kind)>>
                  /\ log'[1].value.success = FALSE
                  /\ log'[1].value.errMsg \notin {"", NoStr}
                  /\ ret' # RetThrow]_vars

\* C15 witness: an uninstall rejected with an Error that has no message and
\* the completion event carries "Error" as errMsg.
C15_Witness ==
  /\ lastOp.op = "uninstallItem.settled"
  /\ lastOp.outcome = Reject(Error(""))
  /\ Len(log) = 1
  /\ log[1].name = <<HANDLE_PLUGIN_UNINSTALLED>>
  /\ log[1].value = ResV(FALSE, "Error", "Error")
  /\ pending[<<"uninstall", lastOp.name>>] = 0

\* C16: the _id a profile in a configList has never changes: a step that
\* is not a delete keeps every profile at its position with its _id, and a
\* delete on a stored list leaves only _ids that were there.
C16_IdNeverChanges ==
  [][\A T \in Types :
       IF lastOp'.op = "deleteUploaderConfig"
         THEN HasList(T) => IdsOf(ListOf(T)') \subseteq IdsOf(ListOf(T))
         ELSE \A i \in 1..Len(ListOf(T)) :
                ListOf(T)[i]._id # 0
                => /\ i <= Len(ListOf(T)')
                   /\ ListOf(T)'[i]._id = ListOf(T)[i]._id]_vars

\* C17: a configList that is non-empty stays non-empty, and it gets shorter
\* only in a deleteUploaderConfig on its type.
C17_ListNeverBecomesEmpty ==
  [][\A T \in Types :
       ListOf(T) # <<>>
       => /\ ListOf(T)' # <<>>
          /\ Len(ListOf(T)') < Len(ListOf(T))
               => Did("deleteUploaderConfig", T)]_vars

C19_DeleteMissingReportsFailure ==
  [][\A T \in Types :
       (/\ Did("deleteUploaderConfig", T)
        /\ Len(ListOf(T)) >= 2
        /\ lastOp'.id # 0
        /\ lastOp'.id \notin IdsOf(ListOf(T)))
       => (ret' = RetNone /\ cfg' = cfg)]_vars

\* C20: updateUploaderConfig with the id of an existing profile overwrites
\* the upserted field of that profile (with its stored, trimmed value),
\* keeps its other fields, sets _updatedAt to the time of the call, and
\* leaves the length of the list, every other profile and the stored
\* defaultId as they were.
C20_UpdateExistingMergesInPlace ==
  [][\A T \in Types :
       (/\ Did("updateUploaderConfig", T)
        /\ HasList(T)
        /\ lastOp'.id \in IdsOf(ListOf(T)))
       => LET i == FindIndex(ListOf(T), lastOp'.id)
              config == lastOp'.config
          IN /\ Len(ListOf(T)') = Len(ListOf(T))
             /\ \A j \in 1..Len(ListOf(T)) :
                  j # i => ListOf(T)'[j] = ListOf(T)[j]
             /\ ListOf(T)'[i].token =
                  IF config.token # NoStr THEN Trim(config.token)
                  ELSE ListOf(T)[i].token
             /\ ListOf(T)'[i]._createdAt = ListOf(T)[i]._createdAt
             /\ ListOf(T)'[i]._updatedAt = now
             /\ DefaultOf(T)' = DefaultOf(T)]_vars

\* C21: in a session of a new uploader form, mounting the form on a type
\* with a stored list adds at most one profile to the list, and no edit of
\* a field in the session makes the list longer.
C21_NewFormAddsAtMostOneProfile ==
  [][\A T \in Types :
       /\ (/\ lastOp'.op = "ConfigForm.setup"
           /\ form'.isNewForm
           /\ form'.id = T
           /\ HasList(T))
            => Len(ListOf(T)') <= Len(ListOf(T)) + 1
       /\ (lastOp'.op = "ConfigForm.edit" /\ form.isNewForm /\ form.id = T)
            => Len(ListOf(T)') = Len(ListOf(T))]_vars

\* C22: after the disable entry has run for a plugin, getCurrentUploader()
\* is not the uploader the plugin provides, picBed.transformer is not the
\* transformer it provides, picgoPlugins.<fullName> is false, and the one
\* REFRESH_PLUGIN_LIST event comes after every write and CONFIG_CHANGE of
\* the handler.
C22_DisableLeavesNoReferenceThenRefreshes ==
  [][\A fullName \in PluginNames :
       (lastOp'.op = "disableItem.click" /\ lastOp'.name = fullName)
       => LET config == PluginConfig(fullName)
          IN /\ config.uploader.name # NoStr
                  => getCurrentUploader([cfg |-> cfg'])
                       # config.uploader.name
             /\ config.transformer.name # NoStr
                  => cfg'.picBed.transformer # config.transformer.name
             /\ cfg'.picgoPlugins[fullName] = "false"
             /\ log' # <<>>
             /\ log'[Len(log')].kind = "event"
             /\ log'[Len(log')].name = <<REFRESH_PLUGIN_LIST>>
             /\ \A i \in 1..(Len(log') - 1) :
                  log'[i].kind \in {"set", "emit"}]_vars

\* C23: getUploaderConfigList, updateUploaderConfig, selectUploaderConfig
\* and deleteUploaderConfig on a type T leave unchanged uploader.<type'> and
\* picBed.<type'> of every other type, picBed.current and picBed.uploader,
\* and every other key of the document.
C23_ProfileOpsTouchOnlyTheirType ==
  [][\A T \in Types :
       (\/ Did("getUploaderConfigList", T)
        \/ Did("updateUploaderConfig", T)
        \/ Did("selectUploaderConfig", T)
        \/ Did("deleteUploaderConfig", T))
       => /\ \A T2 \in Types \ {T} :
               /\ cfg'.uploader[T2] = cfg.uploader[T2]
               /\ cfg'.picBed.beds[T2] = cfg.picBed.beds[T2]
          /\ cfg'.picBed.current = cfg.picBed.current
          /\ cfg'.picBed.uploader = cfg.picBed.uploader
          /\ cfg'.picBed.transformer = cfg.picBed.transformer
          /\ cfg'.picBed.list = cfg.picBed.list
          /\ cfg'.picgoPlugins = cfg.picgoPlugins
          /\ cfg'.a = cfg.a]_vars

=============================================================================
